---- MODULE Spec2Model ----
(***************************************************************************)
(* A model of app.py, the Streamlit dashboard of ezancestry.  One run of   *)
(* main() is one user interaction; Streamlit runs every session's          *)
(* interaction in its own thread of the same process, in the same working  *)
(* directory.  Tables (pandas DataFrames) are records                      *)
(*   [index |-> row labels, columns |-> column labels, data |-> rows],     *)
(* files are sequences of lines, and the numeric results of the library    *)
(* estimators are symbolic terms that record which fit produced them.      *)
(***************************************************************************)
EXTENDS Integers, Sequences, FiniteSets, TLC

\* The largest number of samples a reference file lists.
MaxSamples == 2
\* The largest feature count of the matrices handed to
\* dimensionality_reduction when it is exercised on its own.
MaxFeatures == 4

NaN == "NaN"

----------------------------------------------------------------------------
(* Sequences.                                                              *)

Range(q) == {q[i] : i \in DOMAIN q}

NoDup(q) == \A i, j \in DOMAIN q : i # j => q[i] # q[j]

Contains(q, x) == \E i \in DOMAIN q : q[i] = x

Position(q, x) == CHOOSE i \in DOMAIN q : q[i] = x

\* The position of the last occurrence of x in q.
LastPosition(q, x) ==
    CHOOSE i \in DOMAIN q : q[i] = x /\ \A j \in DOMAIN q : q[j] = x => j <= i

\* q without the later occurrences of any element.
Distinct(q) ==
    LET marked == [i \in DOMAIN q |->
                     [v |-> q[i], first |-> \A j \in 1..(i - 1) : q[j] # q[i]]]
        kept   == SelectSeq(marked, LAMBDA e : e.first)
    IN  [i \in DOMAIN kept |-> kept[i].v]

RECURSIVE Flatten(_)
Flatten(qq) == IF qq = <<>> THEN <<>> ELSE Head(qq) \o Flatten(Tail(qq))

----------------------------------------------------------------------------
(* The reference data: sample identifiers in lexicographic order, and the  *)
(* panel's record of each.                                                 *)

SampleUniverse == <<"HG00096", "HG00097", "NA18525", "NA19017">>

SampleIds == {SampleUniverse[i] : i \in 1..MaxSamples}

Rank(id) == Position(SampleUniverse, id)

\* The identifiers of S in ascending (lexicographic) order.
RECURSIVE SortIds(_)
SortIds(S) ==
    IF S = {} THEN <<>>
    ELSE LET lo == CHOOSE x \in S : \A y \in S : Rank(x) <= Rank(y)
         IN  <<lo>> \o SortIds(S \ {lo})

PanelRecord(id) ==
    CASE id = "HG00096" -> <<"GBR", "EUR", "male">>
      [] id = "HG00097" -> <<"GBR", "EUR", "female">>
      [] id = "NA18525" -> <<"CHB", "EAS", "male">>
      [] OTHER          -> <<"LWK", "AFR", "female">>

\* Sample lists of the reference files: distinct identifiers, any order.
SampleLists ==
    {q \in UNION {[1..n -> SampleIds] : n \in 1..MaxSamples} : NoDup(q)}

\* Variant identifier lists of the reference variant files; a file may
\* repeat an identifier.
VariantLists == {<<"rs1">>, <<"rs1", "rs2">>, <<"rs2", "rs1", "rs2">>}

\* The phased call of the k-th variant for a sample.
Call(id, k) == IF (Rank(id) + k) % 2 = 0 THEN "A|G" ELSE "G|G"

\* A variant file as cyvcf2 presents it: the samples, and per variant its
\* ID and gt_bases (one call per sample).
VcfFile(samples, ids) ==
    [samples  |-> samples,
     variants |-> [k \in DOMAIN ids |->
                     [ID |-> ids[k],
                      gt_bases |-> [i \in DOMAIN samples |-> Call(samples[i], k)]]]]

----------------------------------------------------------------------------
(* Tables.                                                                 *)

Table(index, columns, data) == [index |-> index, columns |-> columns, data |-> data]

EmptyTable == Table(<<>>, <<>>, <<>>)

NRows(t) == Len(t.index)

NCols(t) == Len(t.columns)

\* The values of column c, by row.
Column(t, c) == [i \in DOMAIN t.data |-> t.data[i][Position(t.columns, c)]]

NaNRow(n) == [j \in 1..n |-> NaN]

\* DataFrame.append: the rows of u after the rows of t.
TableAppend(t, u) == Table(t.index \o u.index, t.columns, t.data \o u.data)

----------------------------------------------------------------------------
(* Python values that are not tables.                                      *)

None == [kind |-> "None"]

\* A numeric matrix with its row labels (a DataFrame of numbers, or an
\* ndarray whose rows are told apart by the labels they came with).
Matrix(index, values) == [kind |-> "matrix", index |-> index, values |-> values]

----------------------------------------------------------------------------
(* get_1kg_samples                                                         *)

\* The panel file: one line per sample, ending in two empty columns.
PanelFile(ids) ==
    [i \in DOMAIN ids |-> <<ids[i]>> \o PanelRecord(ids[i]) \o <<NaN, NaN>>]

MetadataColumns == <<"population", "super population", "gender">>

get_1kg_samples(panel) ==
    Table([i \in DOMAIN panel |-> panel[i][1]],
          MetadataColumns,
          [i \in DOMAIN panel |-> SubSeq(panel[i], 2, 4)])

----------------------------------------------------------------------------
(* vcf2df                                                                  *)

\* gt.replace("|", "")
replace_bar(gt) ==
    CASE gt = "A|G" -> "AG"
      [] gt = "G|G" -> "GG"
      [] gt = "A|A" -> "AA"
      [] gt = "G|A" -> "GA"
      [] OTHER      -> gt

\* The row labels of DataFrame.join(how="outer"): the caller's labels when
\* the two indexes are equal or the other is empty, the sorted union
\* otherwise.
OuterJoinIndex(left, right) ==
    IF right = <<>> \/ left = right THEN left
    ELSE IF left = <<>> THEN right
    ELSE SortIds(Range(left) \cup Range(right))

\* The row of t labelled id, or nulls when t has no such row.
RowOrNaN(t, id) ==
    IF Contains(t.index, id) THEN t.data[Position(t.index, id)] ELSE NaNRow(NCols(t))

\* DataFrame.join with its default how="left": the caller's rows only.
LeftJoin(t, u) ==
    Table(t.index, t.columns \o u.columns,
          [i \in DOMAIN t.index |-> RowOrNaN(t, t.index[i]) \o RowOrNaN(u, t.index[i])])

OuterJoin(t, u) ==
    LET index == OuterJoinIndex(t.index, u.index)
    IN  Table(index, t.columns \o u.columns,
              [i \in DOMAIN index |-> RowOrNaN(t, index[i]) \o RowOrNaN(u, index[i])])

vcf2df(vcf_file, dfsamples) ==
    LET ids  == [k \in DOMAIN vcf_file.variants |-> vcf_file.variants[k].ID]
        \* df[variant.ID] = ... adds a column, or overwrites the one of that name
        cols == Distinct(ids)
        df   == Table(vcf_file.samples, cols,
                      [i \in DOMAIN vcf_file.samples |->
                         [c \in DOMAIN cols |->
                            replace_bar(vcf_file.variants[LastPosition(ids, cols[c])].gt_bases[i])]])
    IN  OuterJoin(df, dfsamples)

----------------------------------------------------------------------------
(* encode_genotypes                                                        *)

\* The categories of a column: its non-null values in order of appearance.
Categories(t, c) == Distinct(SelectSeq(Column(t, c), LAMBDA v : v # NaN))

\* handle_missing="return_nan": a null cell is null in every indicator of
\* its column; a value the fit never saw is 0 in every indicator.
EncodeCell(cats, v) ==
    [j \in DOMAIN cats |-> IF v = NaN THEN NaN ELSE IF cats[j] = v THEN "1" ELSE "0"]

ohe_fit(df) ==
    [kind |-> "OneHotEncoder", cols |-> df.columns,
     categories |-> [c \in DOMAIN df.columns |-> Categories(df, df.columns[c])]]

ohe_transform(ohe, df) ==
    [i \in DOMAIN df.data |->
       Flatten([c \in DOMAIN ohe.cols |->
                  EncodeCell(ohe.categories[c],
                             df.data[i][Position(df.columns, ohe.cols[c])])])]

encode_genotypes(df) ==
    LET ohe == ohe_fit(df)
    IN  [X |-> Matrix(df.index, ohe_transform(ohe, df)), ohe |-> ohe]

----------------------------------------------------------------------------
(* dimensionality_reduction                                                *)

n_components == 3

Algorithms == {"PCA", "UMAP", "t-SNE"}

\* One coordinate of a projected row.  The libraries' arithmetic is not
\* modelled: a coordinate is the term naming the axis, the estimator and
\* the size of the fit that produced it, the call that produced it and the
\* encoded row it is the image of.
Coordinate(reducer, via, row, k) ==
    [axis |-> k, algorithm |-> reducer.algorithm, n_fit |-> Len(reducer.fitted_on),
     via |-> via, of |-> row]

\* An estimator built without n_components where the library's default is
\* two components.
ReducerLibraryDefault(algorithm, n) ==
    [kind |-> "reducer", algorithm |-> algorithm,
     n_components |-> IF algorithm = "t-SNE" THEN n - 1 ELSE n, fitted_on |-> <<>>]

\* A new, unfitted estimator.
Reducer(algorithm, n) ==
    [kind |-> "reducer", algorithm |-> algorithm, n_components |-> n, fitted_on |-> <<>>]

\* reducer.fit_transform(values): the fitted estimator and one projected
\* row per row of values.
fit_transform(reducer, values) ==
    LET fitted == [reducer EXCEPT !.fitted_on = values]
    IN  [reducer |-> fitted,
         rows    |-> [i \in DOMAIN values |->
                        [k \in 1..fitted.n_components |->
                           Coordinate(fitted, "fit_transform", values[i], k)]]]

\* reducer.fit_transform in the place of reducer.transform: the estimator
\* is fitted again, on the rows it is given.
reducer_refit_transform(reducer, values) == fit_transform(reducer, values).rows

\* reducer.transform(values): the rows projected by the estimator as it
\* was fitted.
reducer_transform(reducer, values) ==
    [i \in DOMAIN values |->
       [k \in 1..reducer.n_components |-> Coordinate(reducer, "transform", values[i], k)]]

\* pd.DataFrame(data, columns=..., index=...) raises when the data has
\* another number of columns than there are labels.
ShapeFits(data, columns) == \A i \in DOMAIN data : Len(data[i]) = Len(columns)

\* dimensionality_reduction with PCA as the fallback of an unrecognised
\* name.
dimensionality_reduction_fallback(X, algorithm) ==
    LET name == IF algorithm \in Algorithms THEN algorithm ELSE "PCA"
        fit  == fit_transform(Reducer(name, n_components), X.values)
    IN  [raised |-> FALSE, fits |-> 1, reducer |-> fit.reducer,
         X_reduced |-> [kind |-> "matrix", index |-> X.index,
                        columns |-> <<"x", "y", "z">>, values |-> fit.rows]]

\* The result of a call: what it returned or that it raised, and the
\* number of estimator fits it made.
dimensionality_reduction(X, algorithm) ==
    IF algorithm \in Algorithms
    THEN LET fit == fit_transform(Reducer(algorithm, n_components), X.values)
         IN  IF ShapeFits(fit.rows, <<"x", "y", "z">>)
             THEN [raised |-> FALSE, fits |-> 1, reducer |-> fit.reducer,
                   X_reduced |-> [kind |-> "matrix", index |-> X.index,
                                  columns |-> <<"x", "y", "z">>, values |-> fit.rows]]
             ELSE [raised |-> TRUE, fits |-> 1, reducer |-> None, X_reduced |-> None]
    ELSE [raised |-> FALSE, fits |-> 0, reducer |-> None, X_reduced |-> None]

----------------------------------------------------------------------------
(* The uploaded genotype file and SNPs                                     *)

\* A line of a genotype file is <<rsid, chromosome, position, genotype>>;
\* any other line cannot be parsed.
WellFormed(content) == \A i \in DOMAIN content : Len(content[i]) = 4

\* SNPs(path).snps: the genotypes indexed by rsid.  Raises on a file that
\* is not well formed.
SNPs(content) ==
    Table([i \in DOMAIN content |-> content[i][1]],
          <<"chrom", "pos", "genotype">>,
          [i \in DOMAIN content |-> SubSeq(content[i], 2, 4)])

\* What st.file_uploader returns for an upload.
UploadedFile(content) == [kind |-> "UploadedFile", content |-> content]

\* The files a user may upload.
UserFiles ==
    { << <<"rs1", "1", "1000", "AG">>, <<"rs9", "2", "500", "CC">> >>,
      << <<"rs2", "1", "2000", "AA">>, <<"rs1", "1", "1000", "GG">> >>,
      << <<"rs1", "1", "1000", "AG">>, <<"# not a genotype">> >> }

----------------------------------------------------------------------------
(* filter_user_genotypes                                                   *)

\* The lookup with a no-call written where the upload lacks the SNP.
UserGenotypeNoCall(userdf, snp) ==
    IF Contains(userdf.index, snp)
    THEN Column(userdf, "genotype")[Position(userdf.index, snp)]
    ELSE "--"

\* userdf.loc[snp]["genotype"], a KeyError leaving the cell null.
UserGenotype(userdf, snp) ==
    IF Contains(userdf.index, snp)
    THEN Column(userdf, "genotype")[Position(userdf.index, snp)]
    ELSE NaN

filter_user_genotypes(userdf, aisnps_1kg) ==
    LET user_record ==
            Table(<<"your_sample">>, aisnps_1kg.columns,
                  << [c \in DOMAIN aisnps_1kg.columns |->
                        UserGenotype(userdf, aisnps_1kg.columns[c])] >>)
    IN  [user_record |-> user_record,
         aisnps_1kg  |-> TableAppend(aisnps_1kg, user_record)]

----------------------------------------------------------------------------
(* impute_missing                                                          *)

\* KNNImputer(n_neighbors=9).fit_transform, last row, rounded.  A feature
\* null in every row is dropped.  With no more donors than n_neighbors, as
\* in every matrix of this model, a null cell becomes the mean of the
\* feature over the rows that have it; np.rint rounds a half to even.
impute_missing(values) ==
    LET last   == values[Len(values)]
        donors(j) == {i \in DOMAIN values : values[i][j] # NaN}
        ones(j)   == Cardinality({i \in donors(j) : values[i][j] = "1"})
        cell(j)   == IF last[j] # NaN THEN last[j]
                     ELSE IF 2 * ones(j) > Cardinality(donors(j)) THEN "1" ELSE "0"
        cells     == [j \in DOMAIN last |-> [keep |-> donors(j) # {}, v |-> cell(j)]]
        kept      == SelectSeq(cells, LAMBDA e : e.keep)
    IN  [j \in DOMAIN kept |-> kept[j].v]

----------------------------------------------------------------------------
(* KNeighborsClassifier                                                    *)

KNeighborsClassifier ==
    [kind |-> "knn", fitted |-> FALSE, X |-> <<>>, X_index |-> <<>>,
     y |-> <<>>, y_index |-> <<>>]

\* A column of a table as a Series: its values with the table's row labels.
Series(t, c) == [index |-> t.index, values |-> Column(t, c)]

\* knn.fit(X, y) pairs row i of X with label i of y; it raises when the two
\* differ in length.  X_index and y_index keep the row labels the two came
\* with.
LengthsAgree(X, y) == Len(X.values) = Len(y.values)

knn_fit(knn, X, y) ==
    [knn EXCEPT !.fitted = TRUE, !.X = X.values, !.X_index = X.index,
                !.y = y.values, !.y_index = y.index]

\* knn.classes_
classes_(knn) == Range(knn.y)

\* knn.predict(rows)[0] and knn.predict_proba(rows)[0]: the vote is not
\* modelled; the result names the rows it was computed for and the classes
\* it ranges over.
knn_predict(knn, rows) == [kind |-> "prediction", of |-> rows, classes |-> classes_(knn)]

----------------------------------------------------------------------------
(* plot_3d                                                                 *)

MarkerSize == 16
UserMarkerSize == 75
ReferenceMarkerSize == 2

UserColor == "rgb(0,0,0)"

color_discrete_sequence == <<"#008fd5", "#fc4f30", "#e5ae38", "#6d904f", "#810f7c">>

\* The sizes with df["size"] = 75 in the place of df["size"].loc["me"] = 75.
MarkerSizesAllLarge(index) ==
    [i \in DOMAIN index |->
       IF ~Contains(index, "me") THEN ReferenceMarkerSize ELSE UserMarkerSize]

\* The marker sizes of the figure, by row.
MarkerSizes(index) ==
    [i \in DOMAIN index |->
       IF ~Contains(index, "me") THEN ReferenceMarkerSize
       ELSE IF index[i] = "me" THEN UserMarkerSize
       ELSE MarkerSize]

\* The marker colours: the colour color_discrete_map gives the label, or
\* the palette's colour for the label's category, the palette cycling.
MarkerColors(labels) ==
    LET cats == Distinct(SelectSeq(labels, LAMBDA l : l # "me"))
    IN  [i \in DOMAIN labels |->
           IF labels[i] = "me" THEN UserColor
           ELSE color_discrete_sequence[
                    ((Position(cats, labels[i]) - 1) % Len(color_discrete_sequence)) + 1]]

\* np.hstack raises when the two disagree on the number of rows.
plot_3d(X_reduced, dfsamples, pop) ==
    IF Len(X_reduced.values) # NRows(dfsamples)
    THEN [raised |-> TRUE, index |-> <<>>, points |-> <<>>, color |-> <<>>, size |-> <<>>]
    ELSE [raised |-> FALSE,
          index  |-> dfsamples.index,
          points |-> [i \in DOMAIN dfsamples.index |->
                        X_reduced.values[i] \o dfsamples.data[i]],
          color  |-> MarkerColors(Column(dfsamples, pop)),
          size   |-> MarkerSizes(dfsamples.index)]

----------------------------------------------------------------------------
(* The state.                                                              *)

VARIABLES
    data,   \* the files under data/: the panel and the two variant files
    disk,   \* the content of user_snps_file.txt in the working directory
    pc,     \* where each session's run of main() stands
    loc,    \* the local variables of each session's run of main()
    ui,     \* the elements each session's run has rendered, in order
    dr      \* a call of dimensionality_reduction on its own: arguments and result

vars == <<data, disk, pc, loc, ui, dr>>

Sessions == {"A", "B"}

AisnpSets == {"Kidd et al. 55 AISNPs", "Seldin et al. 128 AISNPs"}

PopulationLevels == {"super population", "population"}

\* The variant file main() reads for a choice of AISNP set.
VcfName(aisnp_set) ==
    IF aisnp_set = "Kidd et al. 55 AISNPs" THEN "Kidd" ELSE "Seldin"

\* The locals of main() before it has run.  `bound` holds the names, among
\* those a run may read before assigning, that are assigned; `fits`
\* counts the fits of the reducer; `exception` is what ended the run.
NoLocals ==
    [dfsamples |-> EmptyTable, aisnp_set |-> "", aisnps_1kg |-> EmptyTable,
     X_encoded |-> None, encoder |-> None,
     dimensionality_reduction_method |-> "", X_reduced |-> None, reducer |-> None,
     population_level |-> "", knn |-> None, user_file |-> None,
     bound |-> {}, userdf |-> EmptyTable, user_record |-> EmptyTable,
     user_encoded |-> <<>>, user_imputed |-> <<>>, user_reduced |-> <<>>,
     plotly_3d |-> None, user_pop |-> None, user_pop_probs |-> None,
     fits |-> 0, exception |-> ""]

NoCall == [called |-> FALSE, X |-> None, algorithm |-> "", ret |-> None]

ReferenceData ==
    {[panel |-> PanelFile(p),
      vcf   |-> [f \in {"Kidd", "Seldin"} |->
                   VcfFile(v, IF f = "Kidd" THEN k ELSE sl)]] :
        p \in SampleLists, v \in SampleLists, k \in VariantLists, sl \in VariantLists}

\* One session interacts.
Init ==
    /\ data \in ReferenceData
    /\ disk = <<>>
    /\ pc = [s \in Sessions |-> IF s = "A" THEN "start" ELSE "off"]
    /\ loc = [s \in Sessions |-> NoLocals]
    /\ ui = [s \in Sessions |-> <<>>]
    /\ dr = NoCall

Raise(s, exception) ==
    /\ pc' = [pc EXCEPT ![s] = "failed"]
    /\ loc' = [loc EXCEPT ![s].exception = exception]

----------------------------------------------------------------------------
(* main(), step by step.                                                   *)

\* Lines 22-37: the readme, the panel, the choice of AISNP set, vcf2df.
LoadReference(s) ==
    /\ pc[s] = "start"
    /\ \E aisnp_set \in AisnpSets :
         LET dfsamples == get_1kg_samples(data.panel)
         IN  loc' = [loc EXCEPT ![s].dfsamples = dfsamples,
                                ![s].aisnp_set = aisnp_set,
                                ![s].aisnps_1kg =
                                    vcf2df(data.vcf[VcfName(aisnp_set)], dfsamples)]
    /\ ui' = [ui EXCEPT ![s] = Append(@, "intro.md")]
    /\ pc' = [pc EXCEPT ![s] = "encode"]
    /\ UNCHANGED <<data, disk, dr>>

\* Line 40.
EncodeReference(s) ==
    /\ pc[s] = "encode"
    /\ LET enc == encode_genotypes(loc[s].aisnps_1kg)
       IN  loc' = [loc EXCEPT ![s].X_encoded = enc.X, ![s].encoder = enc.ohe]
    /\ pc' = [pc EXCEPT ![s] = "reduce"]
    /\ UNCHANGED <<data, disk, ui, dr>>

\* Lines 42-48: the choice of algorithm, dimensionality_reduction.
ReduceReference(s) ==
    /\ pc[s] = "reduce"
    /\ \E method \in Algorithms :
         LET r == dimensionality_reduction(loc[s].X_encoded, method)
         IN  /\ loc' = [loc EXCEPT ![s].dimensionality_reduction_method = method,
                                   ![s].X_reduced = r.X_reduced,
                                   ![s].reducer = r.reducer,
                                   ![s].fits = @ + r.fits,
                                   ![s].exception = IF r.raised THEN "ValueError" ELSE @]
             /\ pc' = [pc EXCEPT ![s] = IF r.raised THEN "failed" ELSE "configure"]
    /\ UNCHANGED <<data, disk, ui, dr>>

\* Lines 51-61: the population resolution, the classifier, the upload.
Configure(s) ==
    /\ pc[s] = "configure"
    /\ \E population_level \in PopulationLevels,
          user_file \in {None} \cup {UploadedFile(c) : c \in UserFiles} :
         /\ loc' = [loc EXCEPT ![s].population_level = population_level,
                               ![s].knn = KNeighborsClassifier,
                               ![s].user_file = user_file]
         /\ pc' = [pc EXCEPT ![s] = IF user_file = None THEN "plot_reference" ELSE "copy"]
    /\ UNCHANGED <<data, disk, ui, dr>>

\* Lines 63-66: the upload is copied to user_snps_file.txt.
CopyUpload(s) ==
    /\ pc[s] = "copy"
    /\ disk' = loc[s].user_file.content
    /\ pc' = [pc EXCEPT ![s] = "parse"]
    /\ UNCHANGED <<data, loc, ui, dr>>

\* Lines 67-72: user_snps_file.txt is parsed; an exception is reported and
\* user_file set to None.  Control then leaves the try statement.
ParseUpload(s) ==
    /\ pc[s] = "parse"
    /\ IF WellFormed(disk)
       THEN /\ loc' = [loc EXCEPT ![s].userdf = SNPs(disk),
                                  ![s].bound = @ \cup {"userdf"}]
            /\ UNCHANGED ui
       ELSE /\ loc' = [loc EXCEPT ![s].user_file = None]
            /\ ui' = [ui EXCEPT ![s] = Append(@, "error")]
    /\ pc' = [pc EXCEPT ![s] = "filter"]
    /\ UNCHANGED <<data, disk, dr>>

\* Line 75: reading userdf raises UnboundLocalError when the parse did not
\* assign it.
FilterUser(s) ==
    /\ pc[s] = "filter"
    /\ IF "userdf" \notin loc[s].bound
       THEN Raise(s, "UnboundLocalError")
       ELSE LET r == filter_user_genotypes(loc[s].userdf, loc[s].aisnps_1kg)
            IN  /\ loc' = [loc EXCEPT ![s].user_record = r.user_record,
                                      ![s].aisnps_1kg = r.aisnps_1kg]
                /\ pc' = [pc EXCEPT ![s] = "encode_user"]
    /\ UNCHANGED <<data, disk, ui, dr>>

\* Lines 76-78.
EncodeUser(s) ==
    /\ pc[s] = "encode_user"
    /\ LET user_encoded == ohe_transform(loc[s].encoder, loc[s].user_record)
       IN  loc' = [loc EXCEPT ![s].user_encoded = user_encoded,
                              ![s].X_encoded =
                                  Matrix(@.index \o loc[s].user_record.index,
                                         @.values \o user_encoded),
                              ![s].userdf = EmptyTable,
                              ![s].bound = @ \ {"userdf"}]
    /\ pc' = [pc EXCEPT ![s] = "impute"]
    /\ UNCHANGED <<data, disk, ui, dr>>

\* Lines 81-82.
ImputeAndProjectUser(s) ==
    /\ pc[s] = "impute"
    /\ LET user_imputed == impute_missing(loc[s].X_encoded.values)
       IN  loc' = [loc EXCEPT ![s].user_imputed = user_imputed,
                              ![s].user_reduced =
                                  reducer_transform(loc[s].reducer, <<user_imputed>>)]
    /\ pc' = [pc EXCEPT ![s] = "fit_knn"]
    /\ UNCHANGED <<data, disk, ui, dr>>

\* Line 84 as it would read after lines 87-88: the classifier fitted on
\* the embedding and the labels that hold the user's row.
FitKnnAfterAppend(s) ==
    /\ pc[s] = "fit_knn"
    /\ LET X == Matrix(loc[s].X_reduced.index \o <<"your_sample">>,
                       loc[s].X_reduced.values \o loc[s].user_reduced)
           y == [index  |-> loc[s].dfsamples.index \o <<"me">>,
                 values |-> Column(loc[s].dfsamples, loc[s].population_level) \o <<"me">>]
       IN  IF LengthsAgree(X, y)
           THEN /\ loc' = [loc EXCEPT ![s].knn = knn_fit(@, X, y)]
                /\ pc' = [pc EXCEPT ![s] = "append"]
           ELSE Raise(s, "ValueError")
    /\ UNCHANGED <<data, disk, ui, dr>>

\* Lines 83-84.
FitKnn(s) ==
    /\ pc[s] = "fit_knn"
    /\ LET y == Series(loc[s].dfsamples, loc[s].population_level)
       IN  IF LengthsAgree(loc[s].X_reduced, y)
           THEN /\ loc' = [loc EXCEPT ![s].knn = knn_fit(@, loc[s].X_reduced, y)]
                /\ pc' = [pc EXCEPT ![s] = "append"]
           ELSE Raise(s, "ValueError")
    /\ UNCHANGED <<data, disk, ui, dr>>

\* dfsamples.loc[label] = row: the row of that label is overwritten, or
\* the row is added last.
SetRow(t, label, row) ==
    IF Contains(t.index, label)
    THEN [t EXCEPT !.data = [i \in DOMAIN t.data |-> IF t.index[i] = label THEN row ELSE @[i]]]
    ELSE TableAppend(t, Table(<<label>>, t.columns, <<row>>))

\* np.concatenate((X_reduced, user_reduced)).  The result is an array; the
\* model keeps the row labels the rows came with.
concatenate(X_reduced, user_reduced) ==
    Matrix(X_reduced.index \o [i \in DOMAIN user_reduced |-> "your_sample"],
           X_reduced.values \o user_reduced)

\* Lines 86-88.
AppendUser(s) ==
    /\ pc[s] = "append"
    /\ loc' = [loc EXCEPT ![s].X_reduced = concatenate(@, loc[s].user_reduced),
                          ![s].dfsamples = SetRow(@, "me", <<"me", "me", "me">>)]
    /\ pc' = [pc EXCEPT ![s] = "plot_user"]
    /\ UNCHANGED <<data, disk, ui, dr>>

\* Lines 90-92.
PlotUser(s) ==
    /\ pc[s] = "plot_user"
    /\ LET plotly_3d == plot_3d(loc[s].X_reduced, loc[s].dfsamples, loc[s].population_level)
       IN  IF plotly_3d.raised
           THEN Raise(s, "ValueError") /\ UNCHANGED ui
           ELSE /\ loc' = [loc EXCEPT ![s].plotly_3d = plotly_3d]
                /\ ui' = [ui EXCEPT ![s] = Append(@, "plot")]
                /\ pc' = [pc EXCEPT ![s] = "predict"]
    /\ UNCHANGED <<data, disk, dr>>

\* Lines 94-110: the prediction, the probabilities and, when its checkbox
\* is ticked, the user's genotypes.
PredictUser(s) ==
    /\ pc[s] = "predict"
    /\ loc' = [loc EXCEPT ![s].user_pop = knn_predict(loc[s].knn, loc[s].user_reduced),
                          ![s].user_pop_probs = knn_predict(loc[s].knn, loc[s].user_reduced)]
    /\ \E show_user_gts \in BOOLEAN :
         ui' = [ui EXCEPT ![s] = @ \o <<"prediction", "probabilities">>
                                   \o (IF show_user_gts THEN <<"user_record">> ELSE <<>>)]
    /\ pc' = [pc EXCEPT ![s] = "finish"]
    /\ UNCHANGED <<data, disk, dr>>

\* Lines 112-115: without an upload.
PlotReference(s) ==
    /\ pc[s] = "plot_reference"
    /\ LET plotly_3d == plot_3d(loc[s].X_reduced, loc[s].dfsamples, loc[s].population_level)
       IN  IF plotly_3d.raised
           THEN Raise(s, "ValueError") /\ UNCHANGED ui
           ELSE /\ loc' = [loc EXCEPT ![s].plotly_3d = plotly_3d]
                /\ ui' = [ui EXCEPT ![s] = Append(@, "plot")]
                /\ pc' = [pc EXCEPT ![s] = "finish"]
    /\ UNCHANGED <<data, disk, dr>>

\* Lines 117-128: the reference table when its checkbox is ticked, and the
\* closing text.
Finish(s) ==
    /\ pc[s] = "finish"
    /\ \E show_1kg \in BOOLEAN :
         ui' = [ui EXCEPT ![s] = @ \o (IF show_1kg THEN <<"aisnps_1kg">> ELSE <<>>)
                                   \o <<"details.md">>]
    /\ pc' = [pc EXCEPT ![s] = "done"]
    /\ UNCHANGED <<data, disk, loc, dr>>

main(s) ==
    \/ LoadReference(s)
    \/ EncodeReference(s)
    \/ ReduceReference(s)
    \/ Configure(s)
    \/ CopyUpload(s)
    \/ ParseUpload(s)
    \/ FilterUser(s)
    \/ EncodeUser(s)
    \/ ImputeAndProjectUser(s)
    \/ FitKnn(s)
    \/ AppendUser(s)
    \/ PlotUser(s)
    \/ PredictUser(s)
    \/ PlotReference(s)
    \/ Finish(s)

Next == \E s \in Sessions : main(s)

Spec == Init /\ [][Next]_vars

----------------------------------------------------------------------------
(* Two sessions interact at once, over reference files whose samples agree *)
(* with the panel.                                                         *)

ConcurrentReferenceData ==
    {[panel |-> PanelFile(SortIds(SampleIds)),
      vcf   |-> [f \in {"Kidd", "Seldin"} |->
                   VcfFile(SortIds(SampleIds),
                           IF f = "Kidd" THEN <<"rs1">> ELSE <<"rs1", "rs2">>)]]}

InitConcurrent ==
    /\ data \in ConcurrentReferenceData
    /\ disk = <<>>
    /\ pc = [s \in Sessions |-> "start"]
    /\ loc = [s \in Sessions |-> NoLocals]
    /\ ui = [s \in Sessions |-> <<>>]
    /\ dr = NoCall

SpecConcurrent == InitConcurrent /\ [][Next]_vars

----------------------------------------------------------------------------
(* dimensionality_reduction called on its own, with any algorithm name.    *)

AlgorithmNames == Algorithms \cup {"pca", "LDA", ""}

\* An encoded matrix of the given row labels and number of features.
EncodedMatrix(index, n_features) ==
    Matrix(index,
           [i \in DOMAIN index |->
              [j \in 1..n_features |-> IF (i + j) % 2 = 0 THEN "1" ELSE "0"]])

InitReduction ==
    /\ data \in ConcurrentReferenceData
    /\ disk = <<>>
    /\ pc = [s \in Sessions |-> "off"]
    /\ loc = [s \in Sessions |-> NoLocals]
    /\ ui = [s \in Sessions |-> <<>>]
    /\ dr \in {[called |-> FALSE, X |-> EncodedMatrix(index, m), algorithm |-> a,
                ret |-> None] :
                 index \in SampleLists \cup {<<>>}, m \in 0..MaxFeatures,
                 a \in AlgorithmNames}

CallReduction ==
    /\ ~dr.called
    /\ dr.X # None
    /\ dr' = [dr EXCEPT !.called = TRUE,
                        !.ret = dimensionality_reduction(dr.X, dr.algorithm)]
    /\ UNCHANGED <<data, disk, pc, loc, ui>>

NextReduction == CallReduction

SpecReduction == InitReduction /\ [][NextReduction]_vars

----------------------------------------------------------------------------
(* What a session's run started from.                                      *)

\* The panel as loaded, the reference genotype table, its encoding and its
\* row count, for the files and the AISNP set of session s.
PanelOf(s) == get_1kg_samples(data.panel)

VcfOf(s) == data.vcf[VcfName(loc[s].aisnp_set)]

ReferenceTable(s) == vcf2df(VcfOf(s), PanelOf(s))

ReferenceEncoded(s) == encode_genotypes(ReferenceTable(s)).X

Last(q) == q[Len(q)]

----------------------------------------------------------------------------
(* The claims.                                                             *)

\* C1: in every interaction whose parse of the upload raised, the error is
\* reported, no step of the user pipeline (filter, encode, impute,
\* project, classify) runs, the run does not end in an unhandled
\* exception, and it renders the reference-only plot before it is done.
C1_ParseErrorFallsBackToReference ==
    \A s \in Sessions :
        Contains(ui[s], "error") =>
            /\ pc[s] # "failed"
            /\ loc[s].user_record = EmptyTable
            /\ loc[s].user_reduced = <<>>
            /\ ~loc[s].knn.fitted
            /\ pc[s] = "done" =>
                 /\ loc[s].plotly_3d # None
                 /\ ~Contains(loc[s].plotly_3d.index, "me")

\* The embedding of session s is that of one fit on the reference encoded
\* matrix, with at most the transform of the imputed user vector after it.
C2_ReferenceRowsOfOneFit(s) ==
    LET X   == loc[s].X_reduced
        ref == ReferenceEncoded(s)
        n   == Len(ref.values)
    IN  /\ loc[s].fits = 1
        /\ loc[s].reducer.algorithm = loc[s].dimensionality_reduction_method
        /\ loc[s].reducer.fitted_on = ref.values
        /\ Len(X.values) \in {n, n + 1}
        /\ \A i \in 1..n : \A k \in 1..n_components :
              X.values[i][k] = Coordinate(loc[s].reducer, "fit_transform", ref.values[i], k)
        /\ Len(X.values) = n + 1 =>
              \A k \in 1..n_components :
                  X.values[n + 1][k] =
                      Coordinate(loc[s].reducer, "transform", loc[s].user_imputed, k)

\* A step of session s leaves the rows the embedding holds as they are.
C2_ReferenceRowsKept(s) ==
    loc[s].X_reduced # None =>
        /\ loc'[s].X_reduced # None
        /\ SubSeq(loc'[s].X_reduced.values, 1, Len(loc[s].X_reduced.values))
               = loc[s].X_reduced.values

\* C2: for each algorithm the reducer is fitted once per interaction, on
\* the reference encoded matrix; every reference row of the embedding is a
\* row of that fit, in the order of the reference table, the user's row is
\* the reducer's transform of the imputed user vector under that same fit,
\* and no step changes a reference row once it is computed.
C2_FitOnceTransformOnly ==
    /\ [](\A s \in Sessions : loc[s].X_reduced # None => C2_ReferenceRowsOfOneFit(s))
    /\ [][\A s \in Sessions : C2_ReferenceRowsKept(s)]_vars

C2_Witness ==
    \E s \in Sessions :
        /\ loc[s].X_reduced # None
        /\ loc[s].dimensionality_reduction_method = "UMAP"
        /\ Len(loc[s].X_reduced.values) = Len(ReferenceEncoded(s).values) + 1
        /\ Len(ReferenceEncoded(s).values) > 1

\* C3 as stated: the table vcf2df returns has one row per sample of the
\* variant file and one column per variant of the variant file.
C3_RowsAreSamplesColumnsAreVariants ==
    \A s \in Sessions :
        pc[s] = "encode" =>
            /\ NRows(loc[s].aisnps_1kg) = Len(VcfOf(s).samples)
            /\ NCols(loc[s].aisnps_1kg) = Len(VcfOf(s).variants)

\* C3 amended: the table vcf2df returns has one row per sample identifier
\* found in the variant file or in the metadata table, and one column per
\* distinct variant identifier followed by the three metadata columns.
C3_RowsAreJoinedSamplesColumnsIncludeMetadata ==
    \A s \in Sessions :
        pc[s] = "encode" =>
            /\ NRows(loc[s].aisnps_1kg) =
                   Cardinality(Range(VcfOf(s).samples) \cup Range(PanelOf(s).index))
            /\ NCols(loc[s].aisnps_1kg) =
                   Cardinality({VcfOf(s).variants[k].ID : k \in DOMAIN VcfOf(s).variants})
                       + Len(MetadataColumns)
            /\ SubSeq(loc[s].aisnps_1kg.columns,
                      NCols(loc[s].aisnps_1kg) - Len(MetadataColumns) + 1,
                      NCols(loc[s].aisnps_1kg)) = MetadataColumns

C3_Witness ==
    \E s \in Sessions :
        /\ pc[s] = "encode"
        /\ NRows(loc[s].aisnps_1kg) > Len(VcfOf(s).samples)
        /\ NCols(loc[s].aisnps_1kg) = Len(VcfOf(s).variants) + 2

\* C4: under every interleaving of two concurrent interactions, the
\* genotypes an interaction parsed are those of the file uploaded in that
\* same interaction.
C4_ParsedGenotypesAreOwnUpload ==
    \A s \in Sessions :
        "userdf" \in loc[s].bound =>
            /\ loc[s].user_file # None
            /\ WellFormed(loc[s].user_file.content)
            /\ loc[s].userdf = SNPs(loc[s].user_file.content)

C6_KnnTrainedOnReferenceOnly ==
    \A s \in Sessions :
        (loc[s].knn # None /\ loc[s].knn.fitted) =>
            LET n == Len(ReferenceEncoded(s).values)
            IN  /\ loc[s].knn.X = SubSeq(loc[s].X_reduced.values, 1, n)
                /\ \A i \in DOMAIN loc[s].knn.X : \A k \in DOMAIN loc[s].knn.X[i] :
                      loc[s].knn.X[i][k].via = "fit_transform"
                /\ ~Contains(loc[s].knn.X_index, "your_sample")
                /\ loc[s].knn.y = Column(PanelOf(s), loc[s].population_level)
                /\ "me" \notin classes_(loc[s].knn)
                /\ loc[s].user_pop # None =>
                      /\ loc[s].user_pop.of = loc[s].user_reduced
                      /\ loc[s].user_pop_probs.of = loc[s].user_reduced
                      /\ Len(loc[s].user_reduced) = 1
                      /\ Last(loc[s].X_reduced.values) = loc[s].user_reduced[1]

C6_Witness ==
    \E s \in Sessions :
        /\ loc[s].user_pop # None
        /\ loc[s].population_level = "population"
        /\ Contains(loc[s].dfsamples.index, "me")
        /\ Len(loc[s].knn.X) = 2
        /\ Len(loc[s].X_reduced.values) = 3

\* C7: the figure holds a user-highlighted point exactly when a user
\* sample was ingested.  Without an upload plot_3d is given one embedding
\* row per row of the reference table and no row is labelled 'me'; with an
\* ingested upload it is given one more row, the last, labelled 'me', the
\* image of the user's vector, and that row alone has the larger marker
\* and the highlight colour.
C7_UserPointExactlyWhenIngested ==
    \A s \in Sessions :
        loc[s].plotly_3d # None =>
            LET fig == loc[s].plotly_3d
                n   == NRows(ReferenceTable(s))
            IN  IF loc[s].user_file = None
                THEN /\ Len(fig.points) = n
                     /\ ~Contains(fig.index, "me")
                     /\ \A i \in DOMAIN fig.index :
                           /\ fig.size[i] = ReferenceMarkerSize
                           /\ fig.color[i] # UserColor
                ELSE /\ Len(fig.points) = n + 1
                     /\ SubSeq(Last(fig.points), 1, n_components) = loc[s].user_reduced[1]
                     /\ \A i \in DOMAIN fig.index :
                           /\ fig.index[i] = "me" <=> i = n + 1
                           /\ fig.size[i] = (IF i = n + 1 THEN UserMarkerSize ELSE MarkerSize)
                           /\ fig.color[i] = UserColor <=> i = n + 1

C7_Witness ==
    \E s \in Sessions :
        /\ loc[s].plotly_3d # None
        /\ loc[s].user_file # None
        /\ Len(loc[s].plotly_3d.points) = 3
        /\ loc[s].plotly_3d.size = <<MarkerSize, MarkerSize, UserMarkerSize>>

\* C8: the user record filter_user_genotypes returns has exactly the
\* columns of the reference table, in their order; a column holds the
\* user's genotype when the upload has that SNP identifier and is null
\* otherwise; the table it returns is the reference table with its rows
\* unchanged and the user's row added last.
C8_UserRecordOverReferenceColumns ==
    \A s \in Sessions :
        pc[s] = "encode_user" =>
            LET ref    == ReferenceTable(s)
                record == loc[s].user_record
                upload == loc[s].user_file.content
            IN  /\ record.columns = ref.columns
                /\ NRows(record) = 1
                /\ Len(record.data[1]) = NCols(ref)
                /\ \A c \in DOMAIN ref.columns :
                      IF \E i \in DOMAIN upload : upload[i][1] = ref.columns[c]
                      THEN \E i \in DOMAIN upload :
                              /\ upload[i][1] = ref.columns[c]
                              /\ record.data[1][c] = upload[i][4]
                      ELSE record.data[1][c] = NaN
                /\ loc[s].aisnps_1kg.columns = ref.columns
                /\ loc[s].aisnps_1kg.index = ref.index \o record.index
                /\ loc[s].aisnps_1kg.data = ref.data \o record.data

C8_Witness ==
    \E s \in Sessions :
        /\ pc[s] = "encode_user"
        /\ loc[s].user_record.columns[1] = "rs1"
        /\ loc[s].user_record.columns[2] = "rs2"
        /\ loc[s].user_record.data[1][1] = "AG"
        /\ loc[s].user_record.data[1][2] = NaN
        /\ NRows(loc[s].aisnps_1kg) = 3

\* The row labels of an embedding and of the metadata name the same
\* samples, position by position, the user's row being 'your_sample' in
\* the one and 'me' in the other.
SameSamples(a, b) ==
    /\ Len(a) = Len(b)
    /\ \A i \in DOMAIN a : a[i] = b[i] \/ (a[i] = "your_sample" /\ b[i] = "me")

\* C9: whenever the classifier is fitted, and whenever plot_3d combines the
\* embedding with the metadata, the two have as many rows and row i of the
\* one belongs to the sample of row i of the other, whatever the variant
\* file and the metadata table.
C9_EmbeddingAndMetadataAligned ==
    \A s \in Sessions :
        /\ (loc[s].knn # None /\ loc[s].knn.fitted) =>
               SameSamples(loc[s].knn.X_index, loc[s].knn.y_index)
        /\ loc[s].plotly_3d # None =>
               SameSamples(loc[s].X_reduced.index, loc[s].plotly_3d.index)

\* C10: for every algorithm name other than 'PCA', 'UMAP' and 't-SNE',
\* dimensionality_reduction returns no projection and no reducer, fits
\* nothing and raises nothing.
C10_UnknownAlgorithmIsNoOp ==
    (dr.called /\ dr.algorithm \notin Algorithms) =>
        /\ dr.ret.X_reduced = None
        /\ dr.ret.reducer = None
        /\ dr.ret.fits = 0
        /\ ~dr.ret.raised

C10_Witness ==
    /\ dr.called
    /\ dr.algorithm = "pca"
    /\ Len(dr.X.values) = 2
    /\ dr.ret.reducer = None

====
